---- MODULE Spec2Model ----
(***************************************************************************)
(* include/linux/min_heap.h: an array-based binary min-heap over a         *)
(* caller-owned buffer, with caller-supplied less and swp callbacks.       *)
(*                                                                         *)
(* Every function of the header is an operator on a "machine" record       *)
(*   [data, nr, size, lessCalls, swpCalls, touched, stray]                 *)
(* data/nr/size are the fields of struct __min_heap (data is the buffer    *)
(* of size slots), lessCalls/swpCalls count the callback calls made,       *)
(* touched is the set of buffer indices read or written, and stray is the  *)
(* value a read outside the buffer would yield.                            *)
(***************************************************************************)
EXTENDS Integers, Sequences, FiniteSets

\* Bounds of the model: capacities 0..MaxSize, elements 0..MaxVal.
MaxSize == 4
MaxVal == 2

Values == 0 .. MaxVal

VARIABLES
    data,       \* heap->data: the buffer, a function 0..size-1 -> Values
    nr,         \* heap->nr
    size,       \* heap->size
    warned,     \* the WARN_ONCE diagnostics already reported
    op,         \* the operation that produced this state
    arg,        \* its argument (element of push/pop_push, pos of heapify)
    pre,        \* the heap as it was when that operation was called
    lessCalls,  \* func->less calls made by that operation
    swpCalls,   \* func->swp calls made by that operation
    touched,    \* buffer indices that operation read or wrote
    pc,         \* position of the build-and-extract caller
    input,      \* the elements that caller was given
    k,          \* how many of them it has pushed
    outBulk,    \* values it read at index 0 after the bulk build
    outPush,    \* values it read at index 0 after the one-by-one build
    lessRel,    \* func->less: the pairs <<a, b>> for which it returns true
    frame       \* the locals of a call that is run one loop iteration at a time

vars == <<data, nr, size, warned, op, arg, pre, lessCalls, swpCalls, touched,
          pc, input, k, outBulk, outPush, lessRel, frame>>

callerVars == <<pc, input, k, outBulk, outPush>>

\* The arg of an operation that takes none.
NoArg == 0 - 1

----------------------------------------------------------------------------
\* Callbacks and memory primitives.

\* Integer < on the elements of S, as a less callback.
IntLess(S) == {p \in S \X S : p[1] < p[2]}

\* func->less(a, b)
less(a, b) == <<a, b>> \in lessRel

\* No call is being run one iteration at a time.
NoFrame ==
    [fn |-> "none", phase |-> "none", pos |-> 0, i |-> 0, j |-> 0, outer |-> 0]

\* C integer division by two (truncation toward zero).
CDiv2(x) == IF x >= 0 THEN x \div 2 ELSE -((-x) \div 2)

\* Index of the parent slot, (i - 1) / 2.
Parent(i) == CDiv2(i - 1)

\* *(data + i * elem_size)
Rd(h, i) == IF i \in DOMAIN h.data THEN h.data[i] ELSE h.stray

\* The call func->less(data + i, data + j): its result ...
LessAt(h, i, j) == less(Rd(h, i), Rd(h, j))

\* ... and its trace.
LessCalled(h, i, j) ==
    [h EXCEPT !.lessCalls = @ + 1, !.touched = @ \cup {i, j}]

\* The call func->swp(data + i, data + j).
Swp(h, i, j) ==
    [h EXCEPT !.data = [x \in DOMAIN h.data |->
                           IF x = i THEN Rd(h, j)
                           ELSE IF x = j THEN Rd(h, i)
                           ELSE h.data[x]],
              !.swpCalls = @ + 1,
              !.touched = @ \cup {i, j}]

\* memcpy(data + i * elem_size, element, elem_size)
Store(h, i, v) ==
    [h EXCEPT !.data = [x \in DOMAIN h.data |-> IF x = i THEN v ELSE h.data[x]],
              !.touched = @ \cup {i}]

\* memcpy(data + i * elem_size, data + j * elem_size, elem_size)
Copy(h, i, j) ==
    [h EXCEPT !.data = [x \in DOMAIN h.data |->
                           IF x = i THEN Rd(h, j) ELSE h.data[x]],
              !.touched = @ \cup {i, j}]

----------------------------------------------------------------------------
\* __min_heapify

\* Variant: the arms of the conditional are exchanged, so the descent follows
\* the child that does not compare less than its sibling.
RECURSIVE DescendLarger(_, _)
DescendLarger(h, i) ==
    IF i * 2 + 2 >= h.nr
    THEN [h |-> h, i |-> i]
    ELSE DescendLarger(LessCalled(h, i * 2 + 1, i * 2 + 2),
                       IF LessAt(h, i * 2 + 1, i * 2 + 2) THEN i * 2 + 2
                                                         ELSE i * 2 + 1)

\* "Find the sift-down path all the way to the leaves": the for (;;) loop.
\* Yields the machine and the local i.
RECURSIVE Descend(_, _)
Descend(h, i) ==
    IF i * 2 + 2 >= h.nr
    THEN [h |-> h, i |-> i]
    ELSE Descend(LessCalled(h, i * 2 + 1, i * 2 + 2),
                 IF LessAt(h, i * 2 + 1, i * 2 + 2) THEN i * 2 + 1
                                                   ELSE i * 2 + 2)

\* Variant: the special case for the last leaf is left out.
LastLeafForgotten(h, i) == i

\* Variant: the special case steps to i * 2 + 2, the slot at index nr.
LastLeafPastEnd(h, i) == IF i * 2 + 2 = h.nr THEN i * 2 + 2 ELSE i

\* "Special case for the last leaf with no sibling."
LastLeaf(h, i) == IF i * 2 + 2 = h.nr THEN i * 2 + 1 ELSE i

\* Variant: an if in place of the while, so the backtrack climbs one level
\* at most.
BacktrackOnce(h, pos, i) ==
    IF i /= pos
    THEN [h |-> LessCalled(h, pos, i),
          i |-> IF LessAt(h, pos, i) THEN Parent(i) ELSE i]
    ELSE [h |-> h, i |-> i]

\* Variant: the arguments of less are exchanged, less(data + i, root).
RECURSIVE BacktrackReversed(_, _, _)
BacktrackReversed(h, pos, i) ==
    IF i /= pos
    THEN IF LessAt(h, i, pos)
         THEN BacktrackReversed(LessCalled(h, i, pos), pos, Parent(i))
         ELSE [h |-> LessCalled(h, i, pos), i |-> i]
    ELSE [h |-> h, i |-> i]

\* "Backtrack to the correct location": the first while loop.
RECURSIVE Backtrack(_, _, _)
Backtrack(h, pos, i) ==
    IF i /= pos
    THEN IF LessAt(h, pos, i)
         THEN Backtrack(LessCalled(h, pos, i), pos, Parent(i))
         ELSE [h |-> LessCalled(h, pos, i), i |-> i]
    ELSE [h |-> h, i |-> i]

\* Variant: each swp exchanges slot i with its own child on the path, as a
\* level-by-level sift would, not with slot j.
RECURSIVE ShiftAdjacent(_, _, _, _)
ShiftAdjacent(h, pos, i, j) ==
    IF i /= pos
    THEN ShiftAdjacent(Swp(h, Parent(i), i), pos, Parent(i), j)
    ELSE h

\* "Shift the element into its correct place": the second while loop.
RECURSIVE Shift(_, _, _, _)
Shift(h, pos, i, j) ==
    IF i /= pos
    THEN Shift(Swp(h, Parent(i), j), pos, Parent(i), j)
    ELSE h

\* Sift the element at pos down the heap.
min_heapify(h, pos) ==
    LET d == Descend(h, pos)
        b == Backtrack(d.h, pos, LastLeaf(d.h, d.i))
    IN  Shift(b.h, pos, b.i, b.i)

----------------------------------------------------------------------------
\* __min_heapify_all: for (i = nr / 2 - 1; i >= 0; i--) __min_heapify(heap, i)
\* Variant: the loop stops at i > 0 and never repairs the root.
RECURSIVE HeapifyFromSkipRoot(_, _)
HeapifyFromSkipRoot(h, i) ==
    IF i > 0 THEN HeapifyFromSkipRoot(min_heapify(h, i), i - 1) ELSE h

RECURSIVE HeapifyFrom(_, _)
HeapifyFrom(h, i) ==
    IF i >= 0 THEN HeapifyFrom(min_heapify(h, i), i - 1) ELSE h

\* Variant: the positions are visited in increasing order, 0 up to nr/2 - 1.
RECURSIVE HeapifyUpward(_, _)
HeapifyUpward(h, i) ==
    IF i <= CDiv2(h.nr) - 1 THEN HeapifyUpward(min_heapify(h, i), i + 1) ELSE h

min_heapify_all_ascending(h) == HeapifyUpward(h, 0)

min_heapify_all(h) == HeapifyFrom(h, CDiv2(h.nr) - 1)

----------------------------------------------------------------------------
\* __min_heap_pop

\* Variant: the guard tests nr < 0.
PopEmptyOffByOne(h) == h.nr < 0

\* The guard of WARN_ONCE(heap->nr <= 0, "Popping an empty heap").
PopEmpty(h) == h.nr <= 0

\* Variant: the last element is copied before nr is decremented, from slot nr.
min_heap_pop_copy_first(h) ==
    IF PopEmpty(h)
    THEN h
    ELSE min_heapify([Copy(h, 0, h.nr) EXCEPT !.nr = @ - 1], 0)

min_heap_pop(h) ==
    IF PopEmpty(h)
    THEN h
    ELSE LET h1 == [h EXCEPT !.nr = @ - 1]
         IN  min_heapify(Copy(h1, 0, h1.nr), 0)

----------------------------------------------------------------------------
\* __min_heap_pop_push
\* Variant: an empty heap is refused, as in pop.
min_heap_pop_push_guarded(h, element) ==
    IF PopEmpty(h) THEN h ELSE min_heapify(Store(h, 0, element), 0)

\* Variant: the element is written and the heap is not repaired.
min_heap_pop_push_no_repair(h, element) == Store(h, 0, element)

min_heap_pop_push(h, element) == min_heapify(Store(h, 0, element), 0)

----------------------------------------------------------------------------
\* __min_heap_push

\* Variant: the guard tests nr > size.
PushFullOffByOne(h) == h.nr > h.size

\* The guard of WARN_ONCE(heap->nr >= heap->size, "Pushing on a full heap").
PushFull(h) == h.nr >= h.size

\* Variant: an if in place of the for, so the new element climbs one level
\* at most.
SiftUpOnce(h, pos) ==
    IF pos > 0
    THEN IF LessAt(h, Parent(pos), pos)
         THEN LessCalled(h, Parent(pos), pos)
         ELSE Swp(LessCalled(h, Parent(pos), pos), Parent(pos), pos)
    ELSE h

\* Variant: the loop swaps only while less(child, parent), so the new element
\* stops below a parent equal to it.
RECURSIVE SiftUpWhileLess(_, _)
SiftUpWhileLess(h, pos) ==
    IF pos > 0
    THEN IF ~LessAt(h, pos, Parent(pos))
         THEN LessCalled(h, pos, Parent(pos))
         ELSE SiftUpWhileLess(
                  Swp(LessCalled(h, pos, Parent(pos)), Parent(pos), pos),
                  Parent(pos))
    ELSE h

\* "Sift child at pos up": the for loop.
RECURSIVE SiftUp(_, _)
SiftUp(h, pos) ==
    IF pos > 0
    THEN IF LessAt(h, Parent(pos), pos)
         THEN LessCalled(h, Parent(pos), pos)
         ELSE SiftUp(Swp(LessCalled(h, Parent(pos), pos), Parent(pos), pos),
                     Parent(pos))
    ELSE h

\* Variant: nr is incremented before the element is stored, so the element
\* lands one slot too far.
min_heap_push_increment_first(h, element) ==
    IF PushFull(h)
    THEN h
    ELSE LET h1 == [h EXCEPT !.nr = @ + 1]
         IN  SiftUp(Store(h1, h1.nr, element), h1.nr)

min_heap_push(h, element) ==
    IF PushFull(h)
    THEN h
    ELSE SiftUp([Store(h, h.nr, element) EXCEPT !.nr = @ + 1], h.nr)

----------------------------------------------------------------------------
\* The heap as a state machine.

\* The machine an operation starts from: the heap, with a fresh trace.
Entry(g) ==
    [data |-> data, nr |-> nr, size |-> size,
     lessCalls |-> 0, swpCalls |-> 0, touched |-> {}, stray |-> g]

\* The values a read outside the buffer may yield in the operation whose run
\* from Entry(0) is r: any value, when that run leaves the buffer. A run that
\* stays inside the buffer reads no such value, and one choice stands for all.
Stray(r) == IF r.touched \subseteq DOMAIN r.data THEN {0} ELSE Values

\* The heap fields, as remembered in pre.
Snapshot == [data |-> data, nr |-> nr, size |-> size, warned |-> warned]

\* The state an operation returns with.
Return(h, name, a, w) ==
    /\ data' = h.data
    /\ nr' = h.nr
    /\ size' = h.size
    /\ lessCalls' = h.lessCalls
    /\ swpCalls' = h.swpCalls
    /\ touched' = h.touched
    /\ warned' = w
    /\ op' = name
    /\ arg' = a
    /\ pre' = Snapshot
    /\ UNCHANGED <<lessRel, frame>>

\* A caller-owned buffer of any capacity and contents, holding an empty heap.
EmptyHeap ==
    /\ size \in 0 .. MaxSize
    /\ data \in [0 .. size - 1 -> Values]
    /\ nr = 0
    /\ warned = {}
    /\ op = "init"
    /\ arg = NoArg
    /\ pre = Snapshot
    /\ lessCalls = 0
    /\ swpCalls = 0
    /\ touched = {}

Init ==
    /\ EmptyHeap
    /\ pc = "idle"
    /\ input = <<>>
    /\ k = 0
    /\ outBulk = <<>>
    /\ outPush = <<>>
    /\ lessRel = IntLess(Values)
    /\ frame = NoFrame

\* min_heap_push(heap, &e, func)
Push(e) ==
    /\ \E g \in Stray(min_heap_push(Entry(0), e)) :
          Return(min_heap_push(Entry(g), e), "push", e,
                 IF PushFull(Entry(g)) THEN warned \cup {"push"} ELSE warned)
    /\ UNCHANGED callerVars

\* min_heap_pop(heap, func)
Pop ==
    /\ \E g \in Stray(min_heap_pop(Entry(0))) :
          Return(min_heap_pop(Entry(g)), "pop", NoArg,
                 IF PopEmpty(Entry(g)) THEN warned \cup {"pop"} ELSE warned)
    /\ UNCHANGED callerVars

\* min_heap_pop_push(heap, &e, func)
PopPush(e) ==
    /\ \E g \in Stray(min_heap_pop_push(Entry(0), e)) :
          Return(min_heap_pop_push(Entry(g), e), "pop_push", e, warned)
    /\ UNCHANGED callerVars

\* min_heapify_all(heap, func)
HeapifyAll ==
    /\ \E g \in Stray(min_heapify_all(Entry(0))) :
          Return(min_heapify_all(Entry(g)), "heapify_all", NoArg, warned)
    /\ UNCHANGED callerVars

\* Any sequence of push, pop, heapify_all and (on a non-empty heap) pop_push.
Next ==
    \/ \E e \in Values : Push(e)
    \/ Pop
    \/ \E e \in Values : nr > 0 /\ PopPush(e)
    \/ HeapifyAll

Spec == Init /\ [][Next]_vars

----------------------------------------------------------------------------
\* A caller that builds a heap from its input twice and drains it each time:
\* first by writing the elements into the buffer and calling heapify_all,
\* then by pushing them one at a time onto the emptied heap.

\* Sequences over Values of length 0 .. n.
SeqsUpTo(n) == UNION {[1 .. m -> Values] : m \in 0 .. n}

BuildInit ==
    /\ size \in 0 .. MaxSize
    /\ \E v \in Values : data = [i \in 0 .. size - 1 |-> v]
    /\ nr = 0
    /\ warned = {}
    /\ op = "init"
    /\ arg = NoArg
    /\ pre = Snapshot
    /\ lessCalls = 0
    /\ swpCalls = 0
    /\ touched = {}
    /\ pc = "load"
    /\ input \in SeqsUpTo(size)
    /\ k = 0
    /\ outBulk = <<>>
    /\ outPush = <<>>
    /\ lessRel = IntLess(Values)
    /\ frame = NoFrame

\* The caller places its elements directly in the buffer and sets nr.
Load ==
    /\ pc = "load"
    /\ data' = [i \in 0 .. size - 1 |->
                   IF i < Len(input) THEN input[i + 1] ELSE data[i]]
    /\ nr' = Len(input)
    /\ op' = "load"
    /\ pre' = Snapshot
    /\ pc' = "bulk"
    /\ UNCHANGED <<size, warned, arg, lessCalls, swpCalls, touched,
                   input, k, outBulk, outPush, lessRel, frame>>

BulkBuild ==
    /\ pc = "bulk"
    /\ \E g \in Stray(min_heapify_all(Entry(0))) :
          Return(min_heapify_all(Entry(g)), "heapify_all", NoArg, warned)
    /\ pc' = "drainBulk"
    /\ UNCHANGED <<input, k, outBulk, outPush>>

\* Read index 0, then pop.
ExtractBulk ==
    /\ pc = "drainBulk"
    /\ nr > 0
    /\ outBulk' = Append(outBulk, data[0])
    /\ \E g \in Stray(min_heap_pop(Entry(0))) :
          Return(min_heap_pop(Entry(g)), "pop", NoArg, warned)
    /\ UNCHANGED <<pc, input, k, outPush>>

BulkDrained ==
    /\ pc = "drainBulk"
    /\ nr = 0
    /\ pc' = "push"
    /\ UNCHANGED <<data, nr, size, warned, op, arg, pre, lessCalls, swpCalls,
                   touched, input, k, outBulk, outPush, lessRel, frame>>

PushNext ==
    /\ pc = "push"
    /\ k < Len(input)
    /\ \E g \in Stray(min_heap_push(Entry(0), input[k + 1])) :
          Return(min_heap_push(Entry(g), input[k + 1]), "push", input[k + 1],
                 IF PushFull(Entry(g)) THEN warned \cup {"push"} ELSE warned)
    /\ k' = k + 1
    /\ UNCHANGED <<pc, input, outBulk, outPush>>

AllPushed ==
    /\ pc = "push"
    /\ k = Len(input)
    /\ pc' = "drainPush"
    /\ UNCHANGED <<data, nr, size, warned, op, arg, pre, lessCalls, swpCalls,
                   touched, input, k, outBulk, outPush, lessRel, frame>>

\* Read index 0, then pop.
ExtractPush ==
    /\ pc = "drainPush"
    /\ nr > 0
    /\ outPush' = Append(outPush, data[0])
    /\ \E g \in Stray(min_heap_pop(Entry(0))) :
          Return(min_heap_pop(Entry(g)), "pop", NoArg, warned)
    /\ UNCHANGED <<pc, input, k, outBulk>>

PushDrained ==
    /\ pc = "drainPush"
    /\ nr = 0
    /\ pc' = "done"
    /\ UNCHANGED <<data, nr, size, warned, op, arg, pre, lessCalls, swpCalls,
                   touched, input, k, outBulk, outPush, lessRel, frame>>

BuildNext ==
    \/ Load
    \/ BulkBuild
    \/ ExtractBulk
    \/ BulkDrained
    \/ PushNext
    \/ AllPushed
    \/ ExtractPush
    \/ PushDrained

BuildSpec == BuildInit /\ [][BuildNext]_vars

----------------------------------------------------------------------------
\* min_heapify called at any position of any buffer.

HeapifyInit ==
    /\ size \in 0 .. MaxSize
    /\ data \in [0 .. size - 1 -> Values]
    /\ nr \in 0 .. size
    /\ warned = {}
    /\ op = "init"
    /\ arg = NoArg
    /\ pre = Snapshot
    /\ lessCalls = 0
    /\ swpCalls = 0
    /\ touched = {}
    /\ pc = "idle"
    /\ input = <<>>
    /\ k = 0
    /\ outBulk = <<>>
    /\ outPush = <<>>
    /\ lessRel = IntLess(Values)
    /\ frame = NoFrame

\* min_heapify(heap, pos, func)
Heapify(pos) ==
    /\ \E g \in Stray(min_heapify(Entry(0), pos)) :
          Return(min_heapify(Entry(g), pos), "heapify", pos, warned)
    /\ UNCHANGED callerVars

HeapifyNext == \E pos \in 0 .. nr - 1 : Heapify(pos)

HeapifySpec == HeapifyInit /\ [][HeapifyNext]_vars

----------------------------------------------------------------------------
\* The four operations under a less callback that is any strict partial order
\* of the elements ("@less: Partial order function for this heap").

\* The irreflexive and transitive relations on S.
StrictPartialOrders(S) ==
    {r \in SUBSET (S \X S) :
        /\ \A a \in S : <<a, a>> \notin r
        /\ \A a, b, c \in S :
              (<<a, b>> \in r /\ <<b, c>> \in r) => <<a, c>> \in r}

PartialInit ==
    /\ EmptyHeap
    /\ pc = "idle"
    /\ input = <<>>
    /\ k = 0
    /\ outBulk = <<>>
    /\ outPush = <<>>
    /\ lessRel \in StrictPartialOrders(Values)
    /\ frame = NoFrame

PartialSpec == PartialInit /\ [][Next]_vars

----------------------------------------------------------------------------
\* min_heapify called at any position of any buffer of pairwise distinct
\* integers.

\* The arrangements of 0 .. n - 1 in n slots.
Arrangements(n) ==
    {d \in [0 .. n - 1 -> 0 .. n - 1] :
        \A x, y \in 0 .. n - 1 : x /= y => d[x] /= d[y]}

DistinctInit ==
    /\ size \in 0 .. MaxSize
    /\ data \in Arrangements(size)
    /\ nr \in 0 .. size
    /\ warned = {}
    /\ op = "init"
    /\ arg = NoArg
    /\ pre = Snapshot
    /\ lessCalls = 0
    /\ swpCalls = 0
    /\ touched = {}
    /\ pc = "idle"
    /\ input = <<>>
    /\ k = 0
    /\ outBulk = <<>>
    /\ outPush = <<>>
    /\ lessRel = IntLess(0 .. MaxSize)
    /\ frame = NoFrame

DistinctSpec == DistinctInit /\ [][HeapifyNext]_vars

----------------------------------------------------------------------------
\* The four operations with pop_push called on any heap, the empty one
\* included, of a buffer of at least one slot.

UnguardedInit ==
    /\ Init
    /\ size >= 1

UnguardedNext ==
    \/ \E e \in Values : Push(e)
    \/ Pop
    \/ \E e \in Values : PopPush(e)
    \/ HeapifyAll

UnguardedSpec == UnguardedInit /\ [][UnguardedNext]_vars

----------------------------------------------------------------------------
\* One call of any operation, run one loop iteration at a time, under a less
\* callback that may return either value at every call (which covers every
\* boolean-valued function of the two elements, consistent or not).
\* frame holds the function called (fn), the loop it is in (phase), its
\* locals pos, i and j, and the loop index of __min_heapify_all (outer).

\* The exit test of the descent loop, i * 2 + 2 >= heap->nr.
DescendAtLeaf(n, i) == i * 2 + 2 >= n

\* i = func->less(left, right) ? i * 2 + 1 : i * 2 + 2, less returning b.
DescendPick(i, b) == IF b THEN i * 2 + 1 ELSE i * 2 + 2

\* Variant: the test i != pos is left out of the backtrack loop.
BacktrackUnguarded(pos, i, b) == b

\* The test of the backtrack loop, i != pos && less(root, data + i), less
\* returning b.
BacktrackMore(pos, i, b) == i /= pos /\ b

\* The frame of __min_heapify(heap, pos) at its first statement.
HeapifyFrame(fn, pos, outer) ==
    [fn |-> fn, phase |-> "descend", pos |-> pos, i |-> pos, j |-> pos,
     outer |-> outer]

\* The frame of a call that has returned.
Returned(fn) == [NoFrame EXCEPT !.fn = fn, !.phase = "done"]

StepInit ==
    /\ size \in 0 .. MaxSize
    /\ data = [x \in 0 .. size - 1 |-> x % (MaxVal + 1)]
    /\ nr \in 0 .. size
    /\ warned = {}
    /\ op = "init"
    /\ arg = NoArg
    /\ pre = Snapshot
    /\ lessCalls = 0
    /\ swpCalls = 0
    /\ touched = {}
    /\ pc = "idle"
    /\ input = <<>>
    /\ k = 0
    /\ outBulk = <<>>
    /\ outPush = <<>>
    /\ lessRel = {}
    /\ frame = NoFrame

stepFixed == <<size, warned, op, arg, pre, lessCalls, swpCalls, touched,
               pc, input, k, outBulk, outPush, lessRel>>

\* min_heapify(heap, pos, func) is called.
CallHeapify(pos) ==
    /\ frame.fn = "none"
    /\ frame' = HeapifyFrame("heapify", pos, 0)
    /\ UNCHANGED <<data, nr>>
    /\ UNCHANGED stepFixed

\* min_heapify_all(heap, func) is called: i = heap->nr / 2 - 1.
CallHeapifyAll ==
    /\ frame.fn = "none"
    /\ frame' = IF CDiv2(nr) - 1 >= 0
                THEN HeapifyFrame("heapify_all", CDiv2(nr) - 1, CDiv2(nr) - 1)
                ELSE Returned("heapify_all")
    /\ UNCHANGED <<data, nr>>
    /\ UNCHANGED stepFixed

\* min_heap_pop(heap, func) is called.
CallPop ==
    /\ frame.fn = "none"
    /\ IF PopEmpty(Entry(0))
       THEN /\ frame' = Returned("pop")
            /\ UNCHANGED <<data, nr>>
       ELSE /\ nr' = nr - 1
            /\ data' = Copy(Entry(0), 0, nr - 1).data
            /\ frame' = HeapifyFrame("pop", 0, 0)
    /\ UNCHANGED stepFixed

\* min_heap_pop_push(heap, &e, func) is called.
CallPopPush(e) ==
    /\ frame.fn = "none"
    /\ data' = Store(Entry(0), 0, e).data
    /\ frame' = HeapifyFrame("pop_push", 0, 0)
    /\ UNCHANGED nr
    /\ UNCHANGED stepFixed

\* min_heap_push(heap, &e, func) is called.
CallPush(e) ==
    /\ frame.fn = "none"
    /\ IF PushFull(Entry(0))
       THEN /\ frame' = Returned("push")
            /\ UNCHANGED <<data, nr>>
       ELSE /\ data' = Store(Entry(0), nr, e).data
            /\ nr' = nr + 1
            /\ frame' = [NoFrame EXCEPT !.fn = "push", !.phase = "siftup",
                                        !.pos = nr]
    /\ UNCHANGED stepFixed

\* One test of the descent loop of __min_heapify, and on exit the special
\* case for the last leaf.
StepDescend ==
    /\ frame.phase = "descend"
    /\ IF DescendAtLeaf(nr, frame.i)
       THEN frame' = [frame EXCEPT !.phase = "backtrack",
                                   !.i = LastLeaf(Entry(0), frame.i)]
       ELSE \E b \in BOOLEAN :
                frame' = [frame EXCEPT !.i = DescendPick(frame.i, b)]
    /\ UNCHANGED <<data, nr>>
    /\ UNCHANGED stepFixed

\* One test of the backtrack loop of __min_heapify, and on exit j = i.
StepBacktrack ==
    /\ frame.phase = "backtrack"
    /\ \E b \in BOOLEAN :
          IF BacktrackMore(frame.pos, frame.i, b)
          THEN frame' = [frame EXCEPT !.i = Parent(frame.i)]
          ELSE frame' = [frame EXCEPT !.phase = "shift", !.j = frame.i]
    /\ UNCHANGED <<data, nr>>
    /\ UNCHANGED stepFixed

\* One test of the shift loop of __min_heapify; on exit __min_heapify
\* returns, to the loop of __min_heapify_all (i--, i >= 0) or to the caller.
StepShift ==
    /\ frame.phase = "shift"
    /\ IF frame.i /= frame.pos
       THEN /\ frame' = [frame EXCEPT !.i = Parent(frame.i)]
            /\ data' = Swp(Entry(0), Parent(frame.i), frame.j).data
       ELSE /\ frame' = IF frame.fn = "heapify_all" /\ frame.outer - 1 >= 0
                        THEN HeapifyFrame("heapify_all", frame.outer - 1,
                                          frame.outer - 1)
                        ELSE Returned(frame.fn)
            /\ UNCHANGED data
    /\ UNCHANGED nr
    /\ UNCHANGED stepFixed

\* One iteration of the sift-up loop of __min_heap_push.
StepSiftUp ==
    /\ frame.phase = "siftup"
    /\ IF frame.pos > 0
       THEN \E b \in BOOLEAN :
                IF b
                THEN /\ frame' = Returned("push")
                     /\ UNCHANGED data
                ELSE /\ frame' = [frame EXCEPT !.pos = Parent(frame.pos)]
                     /\ data' = Swp(Entry(0), Parent(frame.pos), frame.pos).data
       ELSE /\ frame' = Returned("push")
            /\ UNCHANGED data
    /\ UNCHANGED nr
    /\ UNCHANGED stepFixed

StepCalls ==
    \/ \E pos \in 0 .. nr - 1 : CallHeapify(pos)
    \/ CallHeapifyAll
    \/ CallPop
    \/ \E e \in Values : nr > 0 /\ CallPopPush(e)
    \/ \E e \in Values : CallPush(e)

StepLoops ==
    \/ StepDescend
    \/ StepBacktrack
    \/ StepShift
    \/ StepSiftUp

StepNext == StepCalls \/ StepLoops

\* A call that has started runs on: nothing suspends it.
StepSpec == StepInit /\ [][StepNext]_vars /\ WF_vars(StepLoops)

----------------------------------------------------------------------------
\* A caller that pushes six given elements onto an empty heap of capacity six,
\* pops once and then calls pop_push(0).

ScenarioInput == <<5, 3, 8, 1, 9, 2>>

ScenarioInit ==
    /\ size = Len(ScenarioInput)
    /\ data \in [0 .. size - 1 -> Values]
    /\ nr = 0
    /\ warned = {}
    /\ op = "init"
    /\ arg = NoArg
    /\ pre = Snapshot
    /\ lessCalls = 0
    /\ swpCalls = 0
    /\ touched = {}
    /\ pc = "push"
    /\ input = ScenarioInput
    /\ k = 0
    /\ outBulk = <<>>
    /\ outPush = <<>>
    /\ lessRel = IntLess(0 .. 9)
    /\ frame = NoFrame

\* Read index 0, then pop.
ScenarioPop ==
    /\ pc = "push"
    /\ k = Len(input)
    /\ outPush' = Append(outPush, data[0])
    /\ \E g \in Stray(min_heap_pop(Entry(0))) :
          Return(min_heap_pop(Entry(g)), "pop", NoArg,
                 IF PopEmpty(Entry(g)) THEN warned \cup {"pop"} ELSE warned)
    /\ pc' = "popped"
    /\ UNCHANGED <<input, k, outBulk>>

ScenarioPopPush ==
    /\ pc = "popped"
    /\ \E g \in Stray(min_heap_pop_push(Entry(0), 0)) :
          Return(min_heap_pop_push(Entry(g), 0), "pop_push", 0, warned)
    /\ pc' = "replaced"
    /\ UNCHANGED <<input, k, outBulk, outPush>>

ScenarioNext ==
    \/ PushNext
    \/ ScenarioPop
    \/ ScenarioPopPush

ScenarioSpec == ScenarioInit /\ [][ScenarioNext]_vars

----------------------------------------------------------------------------
\* Vocabulary of the properties.

\* How many of the first n slots of d hold v.
Count(d, n, v) == Cardinality({i \in 0 .. n - 1 : d[i] = v})

\* The multiset held by the first n slots of d.
Live(d, n) == [v \in Values |-> Count(d, n, v)]

\* The heap property over the first n slots of d.
HeapProperty(d, n) ==
    \A i \in 0 .. n - 1 : \A c \in {2 * i + 1, 2 * i + 2} :
        c < n => ~less(d[c], d[i])

\* Whether slot i lies in the subtree rooted at slot p.
RECURSIVE InSubtree(_, _)
InSubtree(i, p) ==
    IF i = p THEN TRUE
    ELSE IF i < p THEN FALSE
    ELSE InSubtree(Parent(i), p)

\* The slot n levels above slot i.
RECURSIVE Ancestor(_, _)
Ancestor(i, n) == IF n = 0 THEN i ELSE Ancestor(Parent(i), n - 1)

\* The level of slot i in the tree, the root being at level 0.
RECURSIVE Depth(_)
Depth(i) == IF i <= 0 THEN 0 ELSE 1 + Depth(Parent(i))

\* Slot x lies on the parent-to-child path from slot top down to slot bottom.
OnPath(x, top, bottom) == InSubtree(x, top) /\ InSubtree(bottom, x)

\* The heap property over the subtree rooted at p, within the first n slots.
SubtreeHeap(d, n, p) ==
    \A i \in 0 .. n - 1 : \A c \in {2 * i + 1, 2 * i + 2} :
        (InSubtree(i, p) /\ c < n) => ~less(d[c], d[i])

\* s is non-decreasing under less.
NonDecreasing(s) ==
    \A x, y \in 1 .. Len(s) : x < y => ~less(s[y], s[x])

\* The multiset of a sequence.
BagOfSeq(s) == [v \in Values |-> Cardinality({x \in 1 .. Len(s) : s[x] = v})]

\* d with the contents of slots i and j exchanged.
Exchanged(d, i, j) ==
    [x \in DOMAIN d |-> IF x = i THEN d[j] ELSE IF x = j THEN d[i] ELSE d[x]]

\* The textbook sift-down from slot i over the first n slots of d: while the
\* smaller child compares less than the element, swap the two and go on from
\* that child.
RECURSIVE TextbookSiftDown(_, _, _)
TextbookSiftDown(d, n, i) ==
    LET l == 2 * i + 1
        r == 2 * i + 2
        c == IF r < n /\ less(d[r], d[l]) THEN r ELSE l
    IN  IF l < n /\ less(d[c], d[i])
        THEN TextbookSiftDown(Exchanged(d, i, c), n, c)
        ELSE d

\* The machine a call starts from on the heap remembered in p.
EntryOf(p) ==
    [data |-> p.data, nr |-> p.nr, size |-> p.size,
     lessCalls |-> 0, swpCalls |-> 0, touched |-> {}, stray |-> 0]

\* The machine after pop followed by push(e), started on the heap in pre.
PopThenPush(p, e) ==
    min_heap_push(
        min_heap_pop([data |-> p.data, nr |-> p.nr, size |-> p.size,
                      lessCalls |-> 0, swpCalls |-> 0, touched |-> {},
                      stray |-> 0]),
        e)

\* The values by which live multiset `after` differs from `before` are exactly
\* one occurrence of `gone` less and one occurrence of each of `added` more.
Replaced(before, after, gone, added) ==
    \A v \in Values :
        after[v] + (IF v = gone THEN 1 ELSE 0)
            = before[v] + Cardinality({x \in added : x = v})

----------------------------------------------------------------------------
\* Properties of Spec.

\* C1: with less being integer <, after every completed push, pop, pop_push
\* and heapify_all in any sequence from an empty heap, no child among the
\* first nr slots compares less than its parent.
C1_HeapPropertyPreserved == HeapProperty(data, nr)

\* A pop of a heap of four that had to move elements, reached after equal
\* elements were pushed.
C1_Witness ==
    /\ op = "pop"
    /\ pre.nr = 4
    /\ swpCalls >= 1
    /\ \E i, j \in 0 .. nr - 1 : i /= j /\ data[i] = data[j]

\* C6: whenever nr > 0 no live element compares less than element[0]; and a
\* pop of a non-empty heap decrements nr by exactly 1 and leaves the previous
\* live multiset minus one occurrence of the previous element[0].
C6_PopRemovesMinimum ==
    /\ nr > 0 => \A i \in 0 .. nr - 1 : ~less(data[i], data[0])
    /\ (op = "pop" /\ pre.nr > 0) =>
          /\ nr = pre.nr - 1
          /\ Replaced(Live(pre.data, pre.nr), Live(data, nr), pre.data[0], {})

\* A pop of a heap of at least three elements whose minimum occurred once.
C6_Witness ==
    /\ op = "pop"
    /\ pre.nr >= 3
    /\ Count(pre.data, pre.nr, pre.data[0]) = 1
    /\ nr = pre.nr - 1

\* C7: on a heap with nr > 0 that satisfies the heap property, pop_push(e)
\* leaves nr unchanged, leaves the previous live multiset minus one
\* occurrence of the previous element[0] plus e, and leaves the heap property
\* holding, for e smaller than, equal to or larger than the current elements.
C7_PopPushReplacesMinimum ==
    (op = "pop_push" /\ pre.nr > 0 /\ HeapProperty(pre.data, pre.nr)) =>
        /\ nr = pre.nr
        /\ Replaced(Live(pre.data, pre.nr), Live(data, nr), pre.data[0], {arg})
        /\ HeapProperty(data, nr)

\* A pop_push of an element larger than everything in a heap of four.
C7_Witness ==
    /\ op = "pop_push"
    /\ pre.nr = 4
    /\ HeapProperty(pre.data, pre.nr)
    /\ \A i \in 0 .. pre.nr - 1 : less(pre.data[i], arg)

\* C8, as stated: after pop_push(e) the first nr slots are identical, slot by
\* slot, to the first nr slots after pop followed by push(e) from the same
\* starting state.
C8_SlotBySlot ==
    (op = "pop_push" /\ pre.nr > 0) =>
        \A i \in 0 .. nr - 1 : data[i] = PopThenPush(pre, arg).data[i]

\* C8, amended: after pop_push(e), nr, slot 0 and the multiset of the first
\* nr slots are those after pop followed by push(e) from the same starting
\* state, and both buffers satisfy the heap property.
C8_SameHeapContents ==
    (op = "pop_push" /\ pre.nr > 0) =>
        LET two == PopThenPush(pre, arg)
        IN  /\ nr = two.nr
            /\ data[0] = two.data[0]
            /\ Live(data, nr) = Live(two.data, two.nr)
            /\ HeapProperty(data, nr)
            /\ HeapProperty(two.data, two.nr)

\* A pop_push whose buffer differs in some slot from that of pop then push.
C8_Witness ==
    /\ op = "pop_push"
    /\ pre.nr >= 3
    /\ \E i \in 0 .. nr - 1 : data[i] /= PopThenPush(pre, arg).data[i]

\* C9: a pop with nr = 0 and a push with nr = size, the first and every later
\* one, return with nr, size and every buffer slot unchanged and with no
\* less or swp call made.
C9_BoundaryNoOps ==
    ((op = "pop" /\ pre.nr = 0) \/ (op = "push" /\ pre.nr = pre.size)) =>
        /\ nr = pre.nr
        /\ size = pre.size
        /\ data = pre.data
        /\ lessCalls = 0
        /\ swpCalls = 0

\* A push on a full heap of at least two elements, made after both
\* diagnostics had already been reported.
C9_Witness ==
    /\ op = "push"
    /\ pre.nr = pre.size
    /\ pre.size >= 2
    /\ pre.warned = {"pop", "push"}

\* C10: in every state reachable by push, pop, heapify_all and pop_push (on a
\* non-empty heap), pops of an empty heap and pushes on a full heap included,
\* 0 <= nr <= size, size is what it was, and every slot read or written by
\* the operation has an index in [0, size).
C10_WithinBounds ==
    /\ 0 <= nr
    /\ nr <= size
    /\ size = pre.size
    /\ touched \subseteq 0 .. size - 1

\* A push that filled the last slot of a buffer of at least three.
C10_Witness ==
    /\ op = "push"
    /\ size >= 3
    /\ pre.nr = size - 1
    /\ nr = size
    /\ (size - 1) \in touched

\* C13, as stated: after every completed operation, for every i in [0, nr)
\* and every child c of i with c < nr, less(element[i], element[c]) is true,
\* also when the heap holds equal elements.
C13_ParentStrictlyLess ==
    \A i \in 0 .. nr - 1 : \A c \in {2 * i + 1, 2 * i + 2} :
        c < nr => less(data[i], data[c])

\* C13, amended: after every completed operation, for every i in [0, nr) and
\* every child c of i with c < nr, less(element[i], element[c]) is true or
\* the two elements are equal.
C13_ParentLessOrEqual ==
    \A i \in 0 .. nr - 1 : \A c \in {2 * i + 1, 2 * i + 2} :
        c < nr => (less(data[i], data[c]) \/ data[i] = data[c])

\* A push that left a parent equal to one child and less than the other.
C13_Witness ==
    /\ op = "push"
    /\ nr >= 3
    /\ data[0] = data[1]
    /\ less(data[0], data[2])
    /\ ~less(data[0], data[1])

\* C14: on a heap satisfying the heap property with nr < size, push(e)
\* stores e at index nr, increments nr, and moves e up the path of parents
\* with one swp per level climbed, also past a parent equal to e; e rests at
\* index 0 or at the first position whose parent compares less than e, each
\* parent passed has moved down one level, and every slot off the path is
\* unchanged.
C14_PushSiftsUp ==
    (op = "push" /\ pre.nr < pre.size /\ HeapProperty(pre.data, pre.nr)) =>
        LET rest == Ancestor(pre.nr, swpCalls)
        IN  /\ nr = pre.nr + 1
            /\ swpCalls <= Depth(pre.nr)
            /\ data[rest] = arg
            /\ rest = 0 \/ less(data[Parent(rest)], arg)
            /\ lessCalls = swpCalls + (IF rest = 0 THEN 0 ELSE 1)
            /\ pre.nr \in touched
            /\ \A x \in 0 .. size - 1 :
                  IF OnPath(x, rest, pre.nr) /\ x /= rest
                  THEN /\ data[x] = pre.data[Parent(x)]
                       /\ ~less(pre.data[Parent(x)], arg)
                  ELSE x /= rest => data[x] = pre.data[x]

\* A push onto a heap of three that climbed past a parent equal to the new
\* element and came to rest below a smaller root.
C14_Witness ==
    /\ op = "push"
    /\ pre.nr = 3
    /\ pre.nr < pre.size
    /\ pre.data[1] = arg
    /\ less(pre.data[0], arg)
    /\ swpCalls = 1
    /\ data[1] = arg

----------------------------------------------------------------------------
\* Properties of BuildSpec.

\* C2: pushing any n <= size integers in any order onto an empty heap and
\* then n times reading index 0 and popping yields a non-decreasing sequence
\* that is exactly the pushed multiset, and nr is 0 afterwards.
C2_SortedExtraction ==
    pc = "done" =>
        /\ NonDecreasing(outPush)
        /\ BagOfSeq(outPush) = BagOfSeq(input)
        /\ Len(outPush) = Len(input)
        /\ nr = 0

\* A finished run on four elements given in non-increasing order, the last
\* smaller than the first.
C2_Witness ==
    /\ pc = "done"
    /\ Len(input) = 4
    /\ \A x \in 1 .. 3 : ~less(input[x], input[x + 1])
    /\ less(input[4], input[1])
    /\ Len(outPush) = 4

\* C3: for any arrangement of nr <= size integers in the buffer, heapify_all
\* leaves the first nr slots satisfying the heap property and holding the
\* same multiset; for nr <= 1 it calls neither less nor swp and changes
\* nothing.
C3_HeapifyAllBuildsHeap ==
    op = "heapify_all" =>
        /\ nr = pre.nr
        /\ size = pre.size
        /\ HeapProperty(data, nr)
        /\ Live(data, nr) = Live(pre.data, pre.nr)
        /\ pre.nr <= 1 => (lessCalls = 0 /\ swpCalls = 0 /\ data = pre.data)

\* heapify_all on four elements that did not satisfy the heap property at
\* either level.
C3_Witness ==
    /\ op = "heapify_all"
    /\ pre.nr = 4
    /\ less(pre.data[3], pre.data[1])
    /\ less(pre.data[1], pre.data[0])
    /\ swpCalls >= 2

\* C4: the sequence extracted after placing the elements in the buffer and
\* calling heapify_all equals the sequence extracted after pushing the same
\* elements one at a time onto an empty heap.
C4_BulkBuildEqualsPushes ==
    pc = "done" => outBulk = outPush

\* A finished run on at least three elements that were not given in
\* non-decreasing order.
C4_Witness ==
    /\ pc = "done"
    /\ Len(input) >= 3
    /\ ~NonDecreasing(input)
    /\ Len(outBulk) = Len(input)
    /\ Len(outPush) = Len(input)

----------------------------------------------------------------------------
\* Properties of HeapifySpec.

\* C5: if the subtrees rooted at 2*pos+1 and 2*pos+2 each satisfy the heap
\* property, then after heapify_at(pos) the whole subtree rooted at pos does,
\* whatever value is stored at pos, also when pos has one child or none.
C5_HeapifyRepairsSubtree ==
    (/\ op = "heapify"
     /\ SubtreeHeap(pre.data, pre.nr, 2 * arg + 1)
     /\ SubtreeHeap(pre.data, pre.nr, 2 * arg + 2)) =>
        SubtreeHeap(data, nr, arg)

\* heapify_at of a position with exactly one child, which was smaller.
C5_Witness ==
    /\ op = "heapify"
    /\ 2 * arg + 2 = pre.nr
    /\ SubtreeHeap(pre.data, pre.nr, 2 * arg + 1)
    /\ less(pre.data[2 * arg + 1], pre.data[arg])
    /\ swpCalls = 1

----------------------------------------------------------------------------
\* Properties of ScenarioSpec.

\* C11: on a heap of capacity 6 with integer <, pushing 5, 3, 8, 1, 9, 2
\* leaves element[0] = 1 and nr = 6; one pop then leaves nr = 5 and
\* element[0] = 2; pop_push(0) then leaves element[0] = 0, nr = 5 and the
\* heap property over the 5 live elements.
C11_ConcreteScenario ==
    /\ (pc = "push" /\ k = 6) => (size = 6 /\ nr = 6 /\ data[0] = 1)
    /\ pc = "popped" => (nr = 5 /\ data[0] = 2 /\ outPush = <<1>>)
    /\ pc = "replaced" =>
          (nr = 5 /\ data[0] = 0 /\ HeapProperty(data, 5) /\ size = 6)

\* The end of the scenario: pop_push(0) has acted on the five elements left
\* by the pop.
C11_Witness ==
    /\ pc = "replaced"
    /\ op = "pop_push"
    /\ arg = 0
    /\ pre.nr = 5
    /\ pre.data[0] = 2
    /\ k = 6

----------------------------------------------------------------------------
\* Properties of PartialSpec.

\* C12: for every irreflexive and transitive less, relations with
\* incomparable elements included, after every completed push, pop, pop_push
\* and heapify_all in any sequence from an empty heap, no live child at 2i+1
\* or 2i+2 compares less than its parent at i.
C12_PartialOrderHeap ==
    \A i \in 0 .. nr - 1 :
        /\ 2 * i + 1 < nr => ~less(data[2 * i + 1], data[i])
        /\ 2 * i + 2 < nr => ~less(data[2 * i + 2], data[i])

----------------------------------------------------------------------------
\* Further properties of HeapifySpec.

\* C15: heapify_at(pos) makes no swp call in its descent and backtrack
\* phases; the swp calls it makes number depth(i) - depth(pos), i being the
\* slot where the element that was at pos comes to rest (none when i = pos,
\* and then nothing moves); afterwards each element on the path from pos to
\* i has moved up exactly one level.
C15_SwapsPerLevelCrossed ==
    op = "heapify" =>
        LET d == Descend(EntryOf(pre), arg)
            b == Backtrack(d.h, arg, LastLeaf(d.h, d.i))
        IN  /\ d.h.swpCalls = 0
            /\ b.h.swpCalls = 0
            /\ b.h.data = pre.data
            /\ \E i \in 0 .. nr - 1 :
                  /\ InSubtree(i, arg)
                  /\ i = b.i
                  /\ swpCalls = Depth(i) - Depth(arg)
                  /\ data[i] = pre.data[arg]
                  /\ i = arg => (swpCalls = 0 /\ data = pre.data)
                  /\ \A x \in 0 .. nr - 1 :
                        (OnPath(x, arg, i) /\ x /= arg) =>
                            data[Parent(x)] = pre.data[x]

\* heapify_at(0) that moved the root element two levels down, past two
\* different elements.
C15_Witness ==
    /\ op = "heapify"
    /\ arg = 0
    /\ swpCalls = 2
    /\ data[3] = pre.data[0]
    /\ data[0] = pre.data[1]
    /\ data[1] = pre.data[3]
    /\ pre.data[0] /= pre.data[1]
    /\ pre.data[1] /= pre.data[3]

\* C17: heapify_at(pos) leaves nr and size unchanged, leaves the multiset of
\* the first nr elements unchanged, and changes only slots of one single
\* parent-to-child path inside the subtree rooted at pos: no slot outside
\* that subtree and no slot at index >= nr.
C17_HeapifyFrame ==
    op = "heapify" =>
        LET changed == {x \in 0 .. size - 1 : data[x] /= pre.data[x]}
        IN  /\ nr = pre.nr
            /\ size = pre.size
            /\ Live(data, nr) = Live(pre.data, pre.nr)
            /\ \A x \in changed : x < nr /\ InSubtree(x, arg)
            /\ \A x, y \in changed : InSubtree(x, y) \/ InSubtree(y, x)
            /\ \A x \in touched : x < nr /\ InSubtree(x, arg)

\* heapify_at(1) on four elements that exchanged slots 1 and 3, with a root
\* larger than both and a last slot beyond nr.
C17_Witness ==
    /\ op = "heapify"
    /\ arg = 1
    /\ nr = 4
    /\ data[1] = pre.data[3]
    /\ data[3] = pre.data[1]
    /\ less(data[1], data[3])
    /\ less(data[3], data[0])

----------------------------------------------------------------------------
\* Properties of DistinctSpec.

\* The first n slots of d hold pairwise distinct elements.
Distinct(d, n) == \A x, y \in 0 .. n - 1 : x /= y => d[x] /= d[y]

\* C18: on a buffer of pairwise distinct integers in which the subtrees of
\* the children of pos satisfy the heap property, the buffer after
\* heapify_at(pos) is identical, slot by slot, to the buffer after the
\* textbook sift-down from pos.
C18_SameAsTextbook ==
    (/\ op = "heapify"
     /\ Distinct(pre.data, pre.size)
     /\ SubtreeHeap(pre.data, pre.nr, 2 * arg + 1)
     /\ SubtreeHeap(pre.data, pre.nr, 2 * arg + 2)) =>
        data = TextbookSiftDown(pre.data, pre.nr, arg)

\* heapify_at(0) on four distinct elements whose root belonged two levels
\* down, below its left child and that child's only child.
C18_Witness ==
    /\ op = "heapify"
    /\ arg = 0
    /\ pre.nr = 4
    /\ Distinct(pre.data, pre.size)
    /\ SubtreeHeap(pre.data, pre.nr, 1)
    /\ less(pre.data[1], pre.data[2])
    /\ less(pre.data[3], pre.data[0])
    /\ data[3] = pre.data[0]

----------------------------------------------------------------------------
\* Properties of UnguardedSpec.

\* C19: pop_push(e) on an empty heap (nr = 0, size >= 1) is not guarded: it
\* overwrites slot 0 with e and no other slot, calls neither less nor swp
\* and leaves nr = 0; a pop of an empty heap, after it as at any time, is
\* still a no-op that leaves e in slot 0.
C19_PopPushOnEmpty ==
    /\ (op = "pop_push" /\ pre.nr = 0 /\ pre.size >= 1) =>
          /\ nr = 0
          /\ size = pre.size
          /\ data[0] = arg
          /\ \A x \in 1 .. size - 1 : data[x] = pre.data[x]
          /\ touched = {0}
          /\ lessCalls = 0
          /\ swpCalls = 0
          /\ warned = pre.warned
    /\ (op = "pop" /\ pre.nr = 0) =>
          /\ nr = 0
          /\ data = pre.data
          /\ "pop" \in warned

\* pop_push(e) has overwritten slot 0 of an empty heap with a different
\* value.
C19_Witness ==
    /\ op = "pop_push"
    /\ pre.nr = 0
    /\ pre.size >= 2
    /\ pre.data[0] /= arg
    /\ data[0] = arg
    /\ nr = 0

----------------------------------------------------------------------------
\* Properties of StepSpec.

\* The call in frame is in one of its loops.
Running == frame.phase \in {"descend", "backtrack", "shift", "siftup"}

\* C16: every call of heapify_at (pos in [0, nr)), heapify_all, pop, pop_push
\* and push returns after finitely many steps, for every nr <= size and
\* whatever less returns: the descent index strictly increases while
\* 2i+2 < nr, the backtrack and shift indices strictly decrease and stay at
\* or above pos, and the push position strictly decreases and stays at or
\* above 0.
C16_EveryCallTerminates ==
    /\ Running ~> (frame.phase = "done")
    /\ [][/\ (frame.phase = "descend" /\ frame'.phase = "descend") =>
              (frame'.i > frame.i /\ frame.i * 2 + 2 < nr)
          /\ (frame.phase = "backtrack" /\ frame'.phase = "backtrack") =>
              (frame'.i < frame.i /\ frame'.i >= frame.pos)
          /\ (frame.phase = "shift" /\ frame'.phase = "shift") =>
              (frame'.i < frame.i /\ frame'.i >= frame.pos)
          /\ (frame.phase = "siftup" /\ frame'.phase = "siftup") =>
              (frame'.pos < frame.pos /\ frame'.pos >= 0)]_vars

\* heapify_all on four elements has returned, its last heapify having moved
\* the root element two levels down.
C16_Witness ==
    /\ frame.fn = "heapify_all"
    /\ frame.phase = "done"
    /\ nr = 4
    /\ data[3] = 0
    /\ data[0] /= 0

====
